---- MODULE Spec2Model ----
(***************************************************************************)
(* A model of the Obsidian indexer (scanner.py) and of the search server   *)
(* (daz-obsidian-mcp.py): the chunker, the change-detecting sync engine    *)
(* with its persisted fingerprint file, and the reconstruction of whole    *)
(* documents from chunk hits.                                              *)
(*                                                                         *)
(* Text is kept run-length encoded: a string is a sequence of runs         *)
(* [w |-> bytes per character, n |-> number of characters], so that byte   *)
(* offsets, UTF-8 character boundaries and slices are computed exactly     *)
(* with the program's own window sizes.                                    *)
(***************************************************************************)
EXTENDS Integers, Sequences, FiniteSets, TLC

\* ---------------------------------------------------------------- bounds
MaxDocs == 2
NumContents == 2
MaxFaults == 1
MaxCrashes == 1
MaxLimit == 2
MaxDistance == 1
MaxRuns == 2
MaxBlocks == 4
MaxQueue == 2

\* ------------------------------------------------------ program constants
CHUNK_SIZE == 1024
OVERLAP_SIZE == 256
STEP_SIZE == CHUNK_SIZE - OVERLAP_SIZE
OVERSAMPLE == 3

\* ------------------------------------------------------------- documents
\* A document is named by its path relative to the vault.
Docs == {[stem |-> i, ext |-> "md"] : i \in 1..MaxDocs}

Min(a, b) == IF a < b THEN a ELSE b

\* filepath.stem: the file name without its extension; document i is named
\* by i letters "a".
Stem(d) == IF d.stem = 0 THEN <<>> ELSE <<[w |-> 1, n |-> d.stem]>>

\* str(filepath): the absolute path, the vault's path joined with the
\* relative one.
FullPath(d) == [vault |-> "vault", rel |-> d]

\* The texts a file may hold, numbered 1..NumContents: 2000 ASCII bytes
\* (four chunks), ten ASCII characters followed by five 3-byte characters
\* (two chunks), the empty text (the title chunk alone), and then texts of
\* 2-byte characters. Text 0 is 1000 ASCII characters followed by 300 2-byte
\* characters (four chunks, the texts of its three windows all different).
ContentOf(k) ==
    CASE k = 0 -> <<[w |-> 1, n |-> 1000], [w |-> 2, n |-> 300]>>
      [] k = 1 -> <<[w |-> 1, n |-> 2000]>>
      [] k = 2 -> <<[w |-> 1, n |-> 10], [w |-> 3, n |-> 5]>>
      [] k = 3 -> <<>>
      [] OTHER -> <<[w |-> 2, n |-> 600 * (k - 3)]>>

Contents == {ContentOf(k) : k \in 1..NumContents}

\* A file of the vault: missing, or present with its text.
AbsentFile == [exists |-> FALSE, content |-> <<>>]
File(c) == [exists |-> TRUE, content |-> c]
Files == {AbsentFile} \cup {File(c) : c \in Contents}

\* The vaults the search server is run against hold text 0 as well.
SearchFiles == Files \cup {File(ContentOf(0))}

\* The value standing for "relative_path not in self.file_hashes".
NoHash == [present |-> FALSE, md5 |-> <<>>]

\* -------------------------------------------------------------- chunker
\* len(content.encode('utf-8'))
RECURSIVE ByteLen(_)
ByteLen(c) == IF c = <<>> THEN 0 ELSE c[1].w * c[1].n + ByteLen(Tail(c))

\* The byte offset at which run i of c starts.
RunStart(c, i) == ByteLen(SubSeq(c, 1, i - 1))

\* Whether byte offset off of c lies between two characters.
IsBoundary(c, off) ==
    \/ off = 0
    \/ \E i \in 1..Len(c) :
          /\ off >= RunStart(c, i)
          /\ off <= RunStart(c, i) + c[i].w * c[i].n
          /\ (off - RunStart(c, i)) % c[i].w = 0

\* chunk_bytes.decode('utf-8') succeeds on content_bytes[pos:end]: the slice
\* neither starts with a continuation byte nor ends inside a character.
Decodes(c, pos, end) == IsBoundary(c, pos) /\ IsBoundary(c, end)

\* The text of content_bytes[pos:end], for a slice that decodes.
Slice(c, pos, end) ==
    LET part(i) ==
            LET a == RunStart(c, i)
                b == a + c[i].w * c[i].n
                lo == IF a > pos THEN a ELSE pos
                hi == Min(b, end)
            IN  [w |-> c[i].w, n |-> IF hi > lo THEN (hi - lo) \div c[i].w ELSE 0]
        all == [i \in 1..Len(c) |-> part(i)]
    IN  SelectSeq(all, LAMBDA r : r.n > 0)

\* The window taken as sliced, with no attempt to decode it.
NoTrim(c, pos, end) == end

\* The inner loop: end_pos steps back until the slice decodes or is empty.
\* A slice that starts inside a character decodes at no end_pos, so the loop
\* then runs all the way down to pos.
RECURSIVE TrimEnd(_, _, _)
TrimEnd(c, pos, end) ==
    IF end <= pos THEN pos
    ELSE IF Decodes(c, pos, end) THEN end
    ELSE IF ~IsBoundary(c, pos) THEN pos
    ELSE TrimEnd(c, pos, end - 1)

\* The outer loop from byte offset pos on.
RECURSIVE Windows(_, _)
Windows(c, pos) ==
    IF pos >= ByteLen(c) THEN <<>>
    ELSE LET end_pos == TrimEnd(c, pos, Min(pos + CHUNK_SIZE, ByteLen(c)))
         IN  (IF end_pos > pos
                 THEN <<[text |-> Slice(c, pos, end_pos),
                         start_pos |-> pos, end_pos |-> end_pos]>>
                 ELSE <<>>)
             \o Windows(c, pos + STEP_SIZE)

chunk_content(title, content) ==
    <<[text |-> title, start_pos |-> 0, end_pos |-> 0]>> \o Windows(content, 0)

\* calculate_file_hash: the MD5 digest of the file's bytes, taken as
\* collision free over the texts of the model.
calculate_file_hash(content) == [present |-> TRUE, md5 |-> content]

Hashes == {calculate_file_hash(c) : c \in Contents}

\* A fingerprint mapping with no entry.
NoHashes == [d \in Docs |-> NoHash]

\* The chunk records index_file builds for document d with the text read.
ChunkRecords(d, content) ==
    LET chunks == chunk_content(Stem(d), content)
    IN  {[id |-> <<d, i - 1>>,
          document |-> chunks[i].text,
          file_path |-> d,
          title |-> Stem(d),
          chunk_index |-> i - 1,
          start_pos |-> chunks[i].start_pos,
          end_pos |-> chunks[i].end_pos,
          is_title_chunk |-> (i = 1),
          full_path |-> FullPath(d)] : i \in 1..Len(chunks)}

Ids(records) == {r.id : r \in records}
\* ---------------------------------------------------------------- state
VARIABLES
    fs,             \* the vault: document -> file
    collection,     \* the Vector Index: the set of chunk records
    metadata_file,  \* the persisted sync-state file
    file_hashes,    \* ObsidianIndexer.file_hashes, the in-memory mapping
    pc,             \* where the indexer process stands
    phase,          \* "scan" during initial_index, "watch" once the observer runs
    op,             \* the operation in progress: "index" or "remove"
    cur,            \* the document the operation is about
    content,        \* index_file's local: the text read
    current_hash,   \* index_file's local: the fingerprint computed
    results,        \* remove_file_chunks' local: the ids the get returned
    md_files,       \* initial_index's list of files
    todo,           \* the files of md_files not yet visited
    outcome,        \* how the last operation ended
    failed,         \* the steps of the operation in progress that failed
    ops,            \* the Vector Index mutations the operation issued, in order
    pre,            \* the store, the file and the document's chunks at its start
    touched,        \* the document's file was written while the operation ran
    scan_dirty,     \* a file was written while initial_index ran
    faults,         \* failures of collaborators so far
    crashes,        \* process crashes so far
    crashed_at,     \* where the process stood when it crashed, while it is down
    interrupted,    \* the last crash cut an index_file short after its removal step
    spc,            \* where a search_full call of the search server stands
    limit,          \* search_full's argument
    chunk_results,  \* search_full's local: the hits the similarity query returned
    sorted_files,   \* search_full's local, the part of it not yet visited
    articles,       \* search_full's local, and what it returns
    snippets,       \* what search_snippets returns
    seen,           \* what the Vector Index calls of the search call met so far
    cpc,            \* where a lone chunk_content call stands
    chunk_title,    \* its argument title
    chunk_input,    \* its argument content
    chunks,         \* what it returned
    main_at,        \* the statement of main the main thread is at
    scan_at,        \* where the main thread stands inside initial_index
    scan_todo,      \* the files of initial_index's list not yet visited
    main_doc,       \* the document the main thread's index_file is running on
    observing,      \* observer.start() was called
    queue,          \* the observer's queue of events not yet dispatched
    handler         \* the event whose handler the observer thread is running

srch_vars == <<spc, limit, chunk_results, sorted_files, articles, snippets, seen>>

chk_vars == <<cpc, chunk_title, chunk_input, chunks>>

thr_vars == <<main_at, scan_at, scan_todo, main_doc, observing, queue, handler>>

idx_vars == <<fs, collection, metadata_file, file_hashes, pc, phase, op, cur,
              content, current_hash, results, md_files, todo, outcome, failed,
              ops, pre, touched, scan_dirty, faults, crashes, crashed_at,
              interrupted>>

vars == <<idx_vars, srch_vars, chk_vars, thr_vars>>

\* The persisted file: a serialized mapping, or what a truncating open
\* leaves before the mapping is written out.
Persisted(m) == [parses |-> TRUE, map |-> m]
TruncatedFile == [parses |-> FALSE, map |-> NoHashes]

NoDoc == [stem |-> 0, ext |-> "md"]
NoPre == [file_hashes |-> NoHashes, metadata_file |-> TruncatedFile, chunks |-> {}]

NoCrash == [pc |-> "none", op |-> "none", cur |-> NoDoc, persisted |-> TruncatedFile]

\* The chunk records the Vector Index holds for document d.
ChunksOf(d) == {r \in collection : r.file_path = d}

Snapshot(d) ==
    [file_hashes |-> file_hashes, metadata_file |-> metadata_file,
     chunks |-> ChunksOf(d)]

\* An operation is running or has just ended.
InHandler == pc \in {"read", "hash", "get", "delete", "add", "save_open",
                     "save_dump", "done"}

Locals0 ==
    /\ op' = "none"
    /\ cur' = NoDoc
    /\ content' = <<>>
    /\ current_hash' = NoHash
    /\ results' = {}
    /\ outcome' = "none"
    /\ failed' = {}
    /\ ops' = <<>>
    /\ pre' = NoPre
    /\ touched' = FALSE

\* The state once ObsidianIndexer is constructed on a fresh database
\* directory over a vault of the given files, with f collaborator failures
\* already spent.
StartOn(files, f) ==
    /\ fs \in [Docs -> files]
    /\ collection = {}
    /\ metadata_file = Persisted(NoHashes)
    /\ file_hashes = NoHashes
    /\ pc = "initial_index"
    /\ phase = "scan"
    /\ op = "none"
    /\ cur = NoDoc
    /\ content = <<>>
    /\ current_hash = NoHash
    /\ results = {}
    /\ md_files = {}
    /\ todo = {}
    /\ outcome = "none"
    /\ failed = {}
    /\ ops = <<>>
    /\ pre = NoPre
    /\ touched = FALSE
    /\ scan_dirty = FALSE
    /\ faults = f
    /\ crashes = 0
    /\ crashed_at = NoCrash
    /\ interrupted = FALSE
    /\ spc = "idle"
    /\ limit = 0
    /\ chunk_results = <<>>
    /\ sorted_files = <<>>
    /\ articles = <<>>
    /\ snippets = <<>>
    /\ seen = {}

\* No lone chunk_content call is made.
NoChunkCall ==
    /\ cpc = "none"
    /\ chunk_title = <<>>
    /\ chunk_input = <<>>
    /\ chunks = <<>>

\* No event, as an event record.
NoEvent == [kind |-> "none", doc |-> NoDoc]

\* The threads of the process are not followed.
NoThreads ==
    /\ main_at = 0
    /\ scan_at = "none"
    /\ scan_todo = {}
    /\ main_doc = NoDoc
    /\ observing = FALSE
    /\ queue = <<>>
    /\ handler = NoEvent

Start(f) == StartOn(Files, f) /\ NoChunkCall /\ NoThreads

Init == Start(0)

\* The same state, with collaborators that never fail.
InitReliable == Start(MaxFaults)

\* ------------------------------------------------------ the vault's writer
\* An editor creates or rewrites a document.
WriteFile(d, c) ==
    /\ fs[d] # File(c)
    /\ fs' = [fs EXCEPT ![d] = File(c)]
    /\ touched' = (touched \/ (InHandler /\ d = cur))
    /\ scan_dirty' = (scan_dirty \/ (phase = "scan" /\ pc # "initial_index"
                                      /\ pc \notin {"down", "startup_error"}))
    /\ UNCHANGED <<collection, metadata_file, file_hashes, pc, phase, op, cur,
                   content, current_hash, results, md_files, todo, outcome,
                   failed, ops, pre, faults, crashes>>
    /\ UNCHANGED <<crashed_at, interrupted, srch_vars, chk_vars, thr_vars>>

\* An editor deletes a document.
DeleteFile(d) ==
    /\ fs[d].exists
    /\ fs' = [fs EXCEPT ![d] = AbsentFile]
    /\ touched' = (touched \/ (InHandler /\ d = cur))
    /\ scan_dirty' = (scan_dirty \/ (phase = "scan" /\ pc # "initial_index"
                                      /\ pc \notin {"down", "startup_error"}))
    /\ UNCHANGED <<collection, metadata_file, file_hashes, pc, phase, op, cur,
                   content, current_hash, results, md_files, todo, outcome,
                   failed, ops, pre, faults, crashes>>
    /\ UNCHANGED <<crashed_at, interrupted, srch_vars, chk_vars, thr_vars>>

\* ------------------------------------------------------------ the indexer
\* A collaborator (the vault's file system, the Vector Index, the sync-state
\* file) fails at the named step of the operation in progress.
Fault(step) ==
    /\ faults < MaxFaults
    /\ faults' = faults + 1
    /\ failed' = failed \cup {step}

\* An operation on document d begins.
Begin(d, o) ==
    /\ op' = o
    /\ cur' = d
    /\ pre' = Snapshot(d)
    /\ content' = <<>>
    /\ current_hash' = NoHash
    /\ results' = {}
    /\ outcome' = "none"
    /\ failed' = {}
    /\ ops' = <<>>
    /\ touched' = FALSE

\* The operation ends: its except clause or its last line is reached.
Finish(res) ==
    /\ pc' = "done"
    /\ outcome' = res

\* initial_index: md_files = list(vault_path.rglob(...))
InitialIndex ==
    /\ pc = "initial_index"
    /\ md_files' = {d \in Docs : fs[d].exists}
    /\ todo' = {d \in Docs : fs[d].exists}
    /\ phase' = "scan"
    /\ scan_dirty' = FALSE
    /\ pc' = "loop"
    /\ UNCHANGED <<fs, collection, metadata_file, file_hashes, op, cur, content,
                   current_hash, results, outcome, failed, ops, pre, touched,
                   faults, crashes>>
    /\ UNCHANGED <<crashed_at, interrupted, srch_vars, chk_vars, thr_vars>>

\* initial_index: the loop calls index_file for the next file of the list.
ScanNext ==
    /\ pc = "loop"
    /\ \E d \in todo :
          /\ todo' = todo \ {d}
          /\ Begin(d, "index")
    /\ pc' = "read"
    /\ UNCHANGED <<fs, collection, metadata_file, file_hashes, phase, md_files,
                   scan_dirty, faults, crashes>>
    /\ UNCHANGED <<crashed_at, interrupted, srch_vars, chk_vars, thr_vars>>

\* initial_index: the loop is over.
ScanEnd ==
    /\ pc = "loop"
    /\ todo = {}
    /\ pc' = "scanned"
    /\ UNCHANGED <<fs, collection, metadata_file, file_hashes, phase, op, cur,
                   content, current_hash, results, md_files, todo, outcome,
                   failed, ops, pre, touched, scan_dirty, faults, crashes>>
    /\ UNCHANGED <<crashed_at, interrupted, srch_vars, chk_vars, thr_vars>>

\* main: the observer is scheduled and started after the initial index.
StartWatch ==
    /\ pc = "scanned"
    /\ pc' = "watch"
    /\ phase' = "watch"
    /\ md_files' = {}
    /\ scan_dirty' = FALSE
    /\ UNCHANGED <<fs, collection, metadata_file, file_hashes, op, cur, content,
                   current_hash, results, todo, outcome, failed, ops, pre,
                   touched, faults, crashes>>
    /\ interrupted' = FALSE
    /\ UNCHANGED <<crashed_at, srch_vars, chk_vars, thr_vars>>

\* ObsidianEventHandler.on_created
OnCreated(d) ==
    /\ pc = "watch"
    /\ Begin(d, "index")
    /\ pc' = "read"
    /\ UNCHANGED <<fs, collection, metadata_file, file_hashes, phase, md_files,
                   todo, scan_dirty, faults, crashes>>
    /\ UNCHANGED <<crashed_at, interrupted, srch_vars, chk_vars, thr_vars>>

\* ObsidianEventHandler.on_modified
OnModified(d) ==
    /\ pc = "watch"
    /\ Begin(d, "index")
    /\ pc' = "read"
    /\ UNCHANGED <<fs, collection, metadata_file, file_hashes, phase, md_files,
                   todo, scan_dirty, faults, crashes>>
    /\ UNCHANGED <<crashed_at, interrupted, srch_vars, chk_vars, thr_vars>>

\* ObsidianEventHandler.on_deleted: remove_file starts with remove_file_chunks.
OnDeleted(d) ==
    /\ pc = "watch"
    /\ Begin(d, "remove")
    /\ pc' = "get"
    /\ UNCHANGED <<fs, collection, metadata_file, file_hashes, phase, md_files,
                   todo, scan_dirty, faults, crashes>>
    /\ UNCHANGED <<crashed_at, interrupted, srch_vars, chk_vars, thr_vars>>

\* index_file: content = filepath.read_text(encoding='utf-8')
ReadText ==
    /\ pc = "read"
    /\ \/ /\ fs[cur].exists
          /\ content' = fs[cur].content
          /\ pc' = "hash"
          /\ UNCHANGED <<outcome, failed, faults>>
       \/ /\ ~fs[cur].exists
          /\ failed' = failed \cup {"read"}
          /\ Finish("error")
          /\ UNCHANGED <<content, faults>>
       \/ /\ Fault("read")
          /\ Finish("error")
          /\ UNCHANGED content
    /\ UNCHANGED <<fs, collection, metadata_file, file_hashes, phase, op, cur,
                   current_hash, results, md_files, todo, ops, pre, touched,
                   scan_dirty, crashes>>
    /\ UNCHANGED <<crashed_at, interrupted, srch_vars, chk_vars, thr_vars>>

NeverUnchanged(d, h) == FALSE

\* index_file: relative_path in file_hashes and file_hashes[relative_path] == current_hash
HashUnchanged(d, h) == file_hashes[d].present /\ file_hashes[d] = h

NeverRemoves(d) == FALSE

\* index_file: "if relative_path in self.file_hashes", the guard of the removal
NeedsRemoval(d) == file_hashes[d].present

\* index_file: current_hash = calculate_file_hash(filepath), a second read of
\* the file, and the two tests on file_hashes that follow it.
HashFile ==
    /\ pc = "hash"
    /\ \/ /\ fs[cur].exists
          /\ LET h == calculate_file_hash(fs[cur].content)
             IN  /\ current_hash' = h
                 /\ IF HashUnchanged(cur, h) THEN Finish("unchanged")
                    ELSE /\ pc' = IF NeedsRemoval(cur) THEN "get" ELSE "add"
                         /\ UNCHANGED outcome
          /\ UNCHANGED <<failed, faults>>
       \/ /\ ~fs[cur].exists
          /\ failed' = failed \cup {"hash"}
          /\ Finish("error")
          /\ UNCHANGED <<current_hash, faults>>
       \/ /\ Fault("hash")
          /\ Finish("error")
          /\ UNCHANGED current_hash
    /\ UNCHANGED <<fs, collection, metadata_file, file_hashes, phase, op, cur,
                   content, results, md_files, todo, ops, pre, touched,
                   scan_dirty, crashes>>
    /\ UNCHANGED <<crashed_at, interrupted, srch_vars, chk_vars, thr_vars>>

\* What follows the return of remove_file_chunks: index_file goes on to chunk
\* and add; remove_file deletes the fingerprint entry, if there is one, and
\* saves.
AfterRemoveChunks ==
    IF op = "index"
    THEN /\ pc' = "add"
         /\ UNCHANGED <<file_hashes, outcome>>
    ELSE IF file_hashes[cur].present
    THEN /\ file_hashes' = [file_hashes EXCEPT ![cur] = NoHash]
         /\ pc' = "save_open"
         /\ UNCHANGED outcome
    ELSE /\ Finish("removed")
         /\ UNCHANGED file_hashes

ChunksWhereNotTitle(filepath) ==
    {r \in collection : r.file_path = filepath /\ ~r.is_title_chunk}

ChunksOfAnyFile(filepath) == collection

\* collection.get(where={"file_path": filepath})
ChunksWhere(filepath) == {r \in collection : r.file_path = filepath}

\* remove_file_chunks: results = self.collection.get(where=...); an
\* exception is logged and swallowed.
GetChunks ==
    /\ pc = "get"
    /\ \/ /\ results' = Ids(ChunksWhere(cur))
          /\ IF Ids(ChunksWhere(cur)) # {}
             THEN /\ pc' = "delete"
                  /\ UNCHANGED <<file_hashes, outcome>>
             ELSE AfterRemoveChunks
          /\ UNCHANGED <<failed, faults>>
       \/ /\ Fault("get")
          /\ AfterRemoveChunks
          /\ UNCHANGED results
    /\ UNCHANGED <<fs, collection, metadata_file, phase, op, cur, content,
                   current_hash, md_files, todo, ops, pre, touched, scan_dirty,
                   crashes>>
    /\ UNCHANGED <<crashed_at, interrupted, srch_vars, chk_vars, thr_vars>>

\* collection.delete(ids=...)
DeleteRecords(coll, ids) == {r \in coll : r.id \notin ids}

\* remove_file_chunks: self.collection.delete(ids=results['ids']); an
\* exception is logged and swallowed.
DeleteChunks ==
    /\ pc = "delete"
    /\ \/ /\ collection' = DeleteRecords(collection, results)
          /\ ops' = Append(ops, [kind |-> "delete", ids |-> results])
          /\ AfterRemoveChunks
          /\ UNCHANGED <<failed, faults>>
       \/ /\ Fault("delete")
          /\ AfterRemoveChunks
          /\ UNCHANGED <<collection, ops>>
    /\ UNCHANGED <<fs, metadata_file, phase, op, cur, content, current_hash,
                   results, md_files, todo, pre, touched, scan_dirty, crashes>>
    /\ UNCHANGED <<crashed_at, interrupted, srch_vars, chk_vars, thr_vars>>

\* collection.add(ids, documents, metadatas) when it returns: a record whose
\* id the collection already holds is left as it is.
AddRecords(coll, new) == coll \cup {r \in new : r.id \notin Ids(coll)}

\* index_file: the chunks are built and added in one batch, and the
\* fingerprint is set in memory. An add that names ids the collection
\* already holds either raises or skips them, depending on the ChromaDB
\* release.
AddChunks ==
    /\ pc = "add"
    /\ LET new == ChunkRecords(cur, content)
       IN  \/ /\ collection' = AddRecords(collection, new)
              /\ ops' = Append(ops, [kind |-> "add", ids |-> Ids(new)])
              /\ file_hashes' = [file_hashes EXCEPT ![cur] = current_hash]
              /\ pc' = "save_open"
              /\ UNCHANGED <<outcome, failed, faults>>
           \/ /\ Ids(new) \cap Ids(collection) # {}
              /\ failed' = failed \cup {"add"}
              /\ Finish("error")
              /\ UNCHANGED <<collection, ops, file_hashes, faults>>
           \/ /\ Fault("add")
              /\ Finish("error")
              /\ UNCHANGED <<collection, ops, file_hashes>>
    /\ UNCHANGED <<fs, metadata_file, phase, op, cur, content, current_hash,
                   results, md_files, todo, pre, touched, scan_dirty, crashes>>
    /\ UNCHANGED <<crashed_at, interrupted, srch_vars, chk_vars, thr_vars>>

\* save_metadata: open(self.metadata_file, 'w') truncates the file.
SaveOpen ==
    /\ pc = "save_open"
    /\ \/ /\ metadata_file' = TruncatedFile
          /\ pc' = "save_dump"
          /\ UNCHANGED <<outcome, failed, faults>>
       \/ /\ Fault("save")
          /\ Finish("error")
          /\ UNCHANGED metadata_file
    /\ UNCHANGED <<fs, collection, file_hashes, phase, op, cur, content,
                   current_hash, results, md_files, todo, ops, pre, touched,
                   scan_dirty, crashes>>
    /\ UNCHANGED <<crashed_at, interrupted, srch_vars, chk_vars, thr_vars>>

\* save_metadata: json.dump(self.file_hashes, f) writes the whole mapping.
SaveDump ==
    /\ pc = "save_dump"
    /\ \/ /\ metadata_file' = Persisted(file_hashes)
          /\ Finish(IF op = "index" THEN "indexed" ELSE "removed")
          /\ UNCHANGED <<failed, faults>>
       \/ /\ Fault("save")
          /\ Finish("error")
          /\ UNCHANGED metadata_file
    /\ UNCHANGED <<fs, collection, file_hashes, phase, op, cur, content,
                   current_hash, results, md_files, todo, ops, pre, touched,
                   scan_dirty, crashes>>
    /\ UNCHANGED <<crashed_at, interrupted, srch_vars, chk_vars, thr_vars>>

\* The operation returns to the loop of initial_index or to the observer.
Return ==
    /\ pc = "done"
    /\ pc' = IF phase = "scan" THEN "loop" ELSE "watch"
    /\ Locals0
    /\ UNCHANGED <<fs, collection, metadata_file, file_hashes, phase, md_files,
                   todo, scan_dirty, faults, crashes>>
    /\ UNCHANGED <<crashed_at, interrupted, srch_vars, chk_vars, thr_vars>>

\* The process stops at any point (a kill, a power cut, Ctrl-C): what it
\* held in memory is lost.
Crash ==
    /\ pc \notin {"down", "startup_error"}
    /\ crashes < MaxCrashes
    /\ crashes' = crashes + 1
    /\ crashed_at' = [pc |-> pc, op |-> op, cur |-> cur,
                      persisted |-> pre.metadata_file]
    /\ interrupted' = (op = "index" /\ pc \in {"add", "save_open", "save_dump"})
    /\ pc' = "down"
    /\ file_hashes' = NoHashes
    /\ md_files' = {}
    /\ todo' = {}
    /\ scan_dirty' = FALSE
    /\ Locals0
    /\ UNCHANGED <<fs, collection, metadata_file, phase, faults>>
    /\ UNCHANGED <<srch_vars, chk_vars, thr_vars>>

\* load_metadata: json.load of the file, or {} when there is none.
load_metadata == metadata_file.map

\* main, run again: ObsidianIndexer.__init__ loads the metadata; json.load
\* raises on a file that does not parse and the process ends.
Restart ==
    /\ pc = "down"
    /\ IF metadata_file.parses
       THEN /\ file_hashes' = load_metadata
            /\ pc' = "initial_index"
       ELSE /\ pc' = "startup_error"
            /\ UNCHANGED file_hashes
    /\ phase' = "scan"
    /\ UNCHANGED <<fs, collection, metadata_file, op, cur, content,
                   current_hash, results, md_files, todo, outcome, failed, ops,
                   pre, touched, scan_dirty, faults, crashes>>
    /\ crashed_at' = NoCrash
    /\ UNCHANGED <<interrupted, srch_vars, chk_vars, thr_vars>>

\* The editors of the vault.
Writer ==
    \/ \E d \in Docs, c \in Contents : WriteFile(d, c)
    \/ \E d \in Docs : DeleteFile(d)

\* The indexer process: main, and the handlers the observer dispatches. The
\* observer may deliver any event for any document: events lag behind the
\* vault, whose files may have changed again since.
Indexer ==
    \/ InitialIndex
    \/ ScanNext
    \/ ScanEnd
    \/ StartWatch
    \/ \E d \in Docs : OnCreated(d)
    \/ \E d \in Docs : OnModified(d)
    \/ \E d \in Docs : OnDeleted(d)
    \/ ReadText
    \/ HashFile
    \/ GetChunks
    \/ DeleteChunks
    \/ AddChunks
    \/ SaveOpen
    \/ SaveDump
    \/ Return

Next ==
    \/ Writer
    \/ Indexer

\* The indexer process with failing collaborators, run once and never stopped.
Spec == Init /\ [][Next]_vars

NextCrash ==
    \/ Next
    \/ Crash
    \/ Restart

\* No index_file or remove_file call is running.
Idle == pc \in {"initial_index", "loop", "scanned", "watch"}

NextCalls ==
    \/ Idle /\ Writer
    \/ Indexer

\* The indexer process with failing collaborators, the vault's files written
\* only between two operations of the indexer, never while one runs.
SpecCalls == Init /\ [][NextCalls]_vars

\* The indexer process stopped and started again, its collaborators reliable.
SpecCrash == InitReliable /\ [][NextCrash]_vars
\* ------------------------------------------------------ the search server
\* What collection.query may return for k results: the chunk hits in
\* ascending order of distance, each with the file_path of its metadata. The
\* ranking is the embedding engine's: any order of the stored chunks, with
\* any distances from lo up, is possible. cap[d] is the number of chunks of
\* document d not yet listed.
RECURSIVE HitLists(_, _, _)
HitLists(k, lo, cap) ==
    IF k = 0 THEN {<<>>}
    ELSE UNION { { <<[file_path |-> d, distance |-> x]>> \o rest :
                     rest \in HitLists(k - 1, x, [cap EXCEPT ![d] = @ - 1]) } :
                 d \in {e \in Docs : cap[e] > 0}, x \in lo..MaxDistance }

\* The loop with its test left out: the last distance seen is kept.
FileScoresLast(hits, acc) ==
    LET files == {hits[i].file_path : i \in 1..Len(hits)}
        last(f) == CHOOSE i \in 1..Len(hits) :
                       /\ hits[i].file_path = f
                       /\ \A j \in 1..Len(hits) : hits[j].file_path = f => j <= i
        first(f) == CHOOSE i \in 1..Len(hits) :
                       /\ hits[i].file_path = f
                       /\ \A j \in 1..Len(hits) : hits[j].file_path = f => i <= j
        firsts == SelectSeq([i \in 1..Len(hits) |-> i],
                            LAMBDA i : first(hits[i].file_path) = i)
    IN  acc \o [k \in 1..Len(firsts) |-> hits[last(hits[firsts[k]].file_path)]]

\* search_full: the loop filling the dict file_scores, kept in insertion
\* order: a file's entry is created at its first hit and replaced, in place,
\* by a smaller distance.
RECURSIVE FileScores(_, _)
FileScores(hits, acc) ==
    IF hits = <<>> THEN acc
    ELSE LET h == Head(hits)
             at == {i \in 1..Len(acc) : acc[i].file_path = h.file_path}
         IN  FileScores(Tail(hits),
                 IF at = {} THEN Append(acc, h)
                 ELSE [i \in 1..Len(acc) |->
                          IF i \in at /\ h.distance < acc[i].distance
                          THEN h ELSE acc[i]])

\* sorted(file_scores.items(), key=lambda x: x[1]): a stable sort by distance.
RECURSIVE SortByDistance(_)
SortByDistance(s) ==
    IF s = <<>> THEN <<>>
    ELSE LET init == SortByDistance(SubSeq(s, 1, Len(s) - 1))
             x == s[Len(s)]
             before == SelectSeq(init, LAMBDA e : e.distance <= x.distance)
             after == SelectSeq(init, LAMBDA e : e.distance > x.distance)
         IN  before \o <<x>> \o after

TakeAll(s, n) == s

\* The slice [:limit], for limit >= 0.
Take(s, n) == SubSeq(s, 1, Min(n, Len(s)))

\* The records in the order the get returned them, here the reverse order.
RECURSIVE Unsorted(_)
Unsorted(records) ==
    IF records = {} THEN <<>>
    ELSE LET last == CHOOSE r \in records :
                         \A q \in records : r.chunk_index >= q.chunk_index
         IN  <<last>> \o Unsorted(records \ {last})

\* chunks_data.sort(key=lambda x: x["index"]) of the records a get returned.
RECURSIVE SortByIndex(_)
SortByIndex(records) ==
    IF records = {} THEN <<>>
    ELSE LET first == CHOOSE r \in records :
                          \A q \in records : r.chunk_index <= q.chunk_index
         IN  <<first>> \o SortByIndex(records \ {first})

\* The concatenation of two texts.
Cat(a, b) ==
    IF a = <<>> THEN b
    ELSE IF b = <<>> THEN a
    ELSE IF a[Len(a)].w = b[1].w
    THEN SubSeq(a, 1, Len(a) - 1)
         \o <<[w |-> b[1].w, n |-> a[Len(a)].n + b[1].n]>> \o Tail(b)
    ELSE a \o b

\* "".join(content_parts)
RECURSIVE Join(_)
Join(parts) == IF parts = <<>> THEN <<>> ELSE Cat(Head(parts), Join(Tail(parts)))

\* search_full: the article built from the chunks fetched for one file.
Article(file_path, best_distance, file_chunks) ==
    LET chunks_data == SortByIndex(file_chunks)
        content_parts == [i \in 1..(Len(chunks_data) - 1) |->
                             chunks_data[i + 1].document]
    IN  [file_path |-> file_path,
         title |-> chunks_data[1].title,
         full_path |-> chunks_data[1].full_path,
         content |-> Join(content_parts),
         relevance_score |-> 1 - best_distance]

\* What collection.query may return for k results with their documents and
\* metadatas: k of the given records, in any order, with nondecreasing
\* distances from lo up.
RECURSIVE ChunkHitLists(_, _, _)
ChunkHitLists(k, lo, records) ==
    IF k = 0 THEN {<<>>}
    ELSE UNION { { <<[record |-> r, distance |-> x]>> \o rest :
                     rest \in ChunkHitLists(k - 1, x, records \ {r}) } :
                 r \in records, x \in lo..MaxDistance }

\* search_snippets: the dict built for one hit.
Snippet(hit) ==
    [chunk_id |-> hit.record.id,
     content |-> hit.record.document,
     metadata |-> [file_path |-> hit.record.file_path,
                   title |-> hit.record.title,
                   chunk_index |-> hit.record.chunk_index,
                   start_pos |-> hit.record.start_pos,
                   end_pos |-> hit.record.end_pos,
                   is_title_chunk |-> hit.record.is_title_chunk,
                   full_path |-> hit.record.full_path],
     distance |-> hit.distance]

HandlesNothing(exception) == FALSE

\* "except Exception as e": the clause that closes the try block of
\* search_snippets and of search_full catches whatever a Vector Index call
\* raises.
Handles(exception) == TRUE

\* A Vector Index call of the search call in progress raises: the except
\* clause logs and returns [], or the exception reaches the caller.
SearchRaises(step) ==
    /\ seen' = seen \cup {step}
    /\ spc' = IF Handles(step) THEN "returned" ELSE "raised"
    /\ chunk_results' = <<>>
    /\ sorted_files' = <<>>
    /\ articles' = <<>>
    /\ snippets' = <<>>

\* search_snippets(query, n): the similarity query for n chunks and the
\* reshaping of its hits. A query that raises (n_results not positive, the
\* index failing) or returns no id ends the call with [].
SearchSnippets(n) ==
    /\ spc = "idle"
    /\ limit' = n
    /\ \/ /\ n > 0
          /\ \E hits \in ChunkHitLists(Min(n, Cardinality(collection)), 0,
                                       collection) :
                /\ snippets' = [i \in 1..Len(hits) |-> Snippet(hits[i])]
                /\ seen' = IF hits = <<>> THEN {"query_empty"} ELSE {}
          /\ spc' = "returned"
          /\ UNCHANGED <<chunk_results, sorted_files, articles>>
       \/ SearchRaises("query_failed")
    /\ UNCHANGED <<idx_vars, chk_vars, thr_vars>>

\* search_full(query, n): the similarity query for n * 3 chunks, the
\* reduction to one entry per file and the cut to n files. A query that
\* raises (n_results not positive, the index failing) or returns no id ends
\* the call with [].
SearchQuery(n) ==
    /\ spc = "idle"
    /\ limit' = n
    /\ \/ /\ n * OVERSAMPLE > 0
          /\ \E hits \in HitLists(Min(n * OVERSAMPLE, Cardinality(collection)), 0,
                                  [d \in Docs |-> Cardinality(ChunksOf(d))]) :
                /\ chunk_results' = hits
                /\ IF hits = <<>>
                   THEN /\ spc' = "returned"
                        /\ sorted_files' = <<>>
                        /\ seen' = {"query_empty"}
                   ELSE /\ spc' = "fetch"
                        /\ sorted_files' =
                               Take(SortByDistance(FileScores(hits, <<>>)), n)
                        /\ seen' = {}
          /\ articles' = <<>>
          /\ UNCHANGED snippets
       \/ SearchRaises("query_failed")
    /\ UNCHANGED <<idx_vars, chk_vars, thr_vars>>

\* search_full: one turn of the loop over sorted_files: the file's chunks
\* are fetched; a file with none is skipped; a get that raises ends the call
\* with [].
SearchFetch ==
    /\ spc = "fetch"
    /\ sorted_files # <<>>
    /\ LET file_path == Head(sorted_files).file_path
           best_distance == Head(sorted_files).distance
           file_chunks == {r \in collection : r.file_path = file_path}
       IN  \/ /\ sorted_files' = Tail(sorted_files)
              /\ articles' = IF file_chunks = {} THEN articles
                             ELSE Append(articles,
                                      Article(file_path, best_distance, file_chunks))
              /\ seen' = seen \cup {IF file_chunks = {} THEN "fetch_empty"
                                     ELSE "fetched"}
              /\ UNCHANGED <<spc, chunk_results, snippets>>
           \/ SearchRaises("fetch_failed")
    /\ UNCHANGED <<idx_vars, chk_vars, thr_vars, limit>>

\* search_full: return articles
SearchReturn ==
    /\ spc = "fetch"
    /\ sorted_files = <<>>
    /\ spc' = "returned"
    /\ UNCHANGED <<idx_vars, chk_vars, thr_vars, limit, chunk_results, sorted_files,
                   articles, snippets, seen>>

\* The caller has the result; the server waits for the next call.
SearchDone ==
    /\ spc = "returned"
    /\ spc' = "idle"
    /\ limit' = 0
    /\ chunk_results' = <<>>
    /\ articles' = <<>>
    /\ snippets' = <<>>
    /\ seen' = {}
    /\ UNCHANGED <<idx_vars, chk_vars, thr_vars, sorted_files>>

NextSearch ==
    \/ Indexer
    \/ \E n \in 0..MaxLimit : SearchSnippets(n)
    \/ \E n \in 0..MaxLimit : SearchQuery(n)
    \/ SearchFetch
    \/ SearchReturn
    \/ SearchDone

\* The search server answering calls while the indexer, its collaborators
\* reliable, indexes a vault and handles the events delivered to it.
InitSearch == StartOn(SearchFiles, MaxFaults) /\ NoChunkCall /\ NoThreads

SpecSearch == InitSearch /\ [][NextSearch]_vars

\* ------------------------------------------------------ the chunker alone
\* The byte widths of a UTF-8 character.
Widths == 1..4

\* The lengths of a run of characters: one character, and the multiples of
\* 256 characters up to MaxBlocks, each also with one character more.
CharCounts == {1} \cup {256 * q + r : q \in 1..MaxBlocks, r \in 0..1}

\* The texts of at most k runs, neighbouring runs differing in width.
RECURSIVE TextsUpTo(_)
TextsUpTo(k) ==
    IF k = 0 THEN {<<>>}
    ELSE LET shorter == TextsUpTo(k - 1)
             runs == [w : Widths, n : CharCounts]
         IN  shorter \cup
             UNION { {Append(t, r) :
                         r \in {x \in runs : t = <<>> \/ t[Len(t)].w # x.w}} :
                     t \in {u \in shorter : Len(u) = k - 1} }

\* The strings chunk_content is called on.
Texts == TextsUpTo(MaxRuns)

\* A call chunk_content(title, content) about to be made.
InitChunk ==
    /\ StartOn({AbsentFile}, MaxFaults)
    /\ cpc = "call"
    /\ chunk_title \in {Stem(d) : d \in Docs}
    /\ chunk_input \in Texts
    /\ chunks = <<>>
    /\ NoThreads

\* chunk_content runs and returns its list.
ChunkContent ==
    /\ cpc = "call"
    /\ chunks' = chunk_content(chunk_title, chunk_input)
    /\ cpc' = "returned"
    /\ UNCHANGED <<idx_vars, srch_vars, thr_vars, chunk_title, chunk_input>>

NextChunk == ChunkContent

\* chunk_content called once on each string of Texts.
SpecChunk == InitChunk /\ [][NextChunk]_vars

\* ------------------------------------------- the threads of the indexer
\* main with observer.start() moved before indexer.initial_index().
ObserverFirst == <<"start_observer", "initial_index", "sleep">>

\* The statements of main that run operations, in their order: the initial
\* index, the start of the observer, the sleep loop.
MainProgram == <<"initial_index", "start_observer", "sleep">>

\* The statement the main thread is at.
Statement == MainProgram[main_at]

\* The events the observer delivers to ObsidianEventHandler.
Events == [kind : {"created", "modified", "deleted"}, doc : Docs]

\* main is entered: the main thread is about to run its first statement.
InitThreads ==
    /\ StartOn({AbsentFile}, MaxFaults)
    /\ NoChunkCall
    /\ main_at = 1
    /\ scan_at = "list"
    /\ scan_todo = {}
    /\ main_doc = NoDoc
    /\ observing = FALSE
    /\ queue = <<>>
    /\ handler = NoEvent

\* initial_index: the list of the vault's files is taken.
MainListFiles ==
    /\ Statement = "initial_index"
    /\ scan_at = "list"
    /\ scan_todo' \in SUBSET Docs
    /\ scan_at' = "loop"
    /\ UNCHANGED <<main_at, main_doc, observing, queue, handler>>
    /\ UNCHANGED <<idx_vars, srch_vars, chk_vars>>

\* initial_index: the main thread enters index_file for the next file.
MainIndexFile ==
    /\ Statement = "initial_index"
    /\ scan_at = "loop"
    /\ \E d \in scan_todo :
          /\ main_doc' = d
          /\ scan_todo' = scan_todo \ {d}
    /\ scan_at' = "index_file"
    /\ UNCHANGED <<main_at, observing, queue, handler>>
    /\ UNCHANGED <<idx_vars, srch_vars, chk_vars>>

\* initial_index: that index_file returns.
MainIndexFileReturns ==
    /\ Statement = "initial_index"
    /\ scan_at = "index_file"
    /\ main_doc' = NoDoc
    /\ scan_at' = "loop"
    /\ UNCHANGED <<main_at, scan_todo, observing, queue, handler>>
    /\ UNCHANGED <<idx_vars, srch_vars, chk_vars>>

\* initial_index returns to main.
MainInitialIndexReturns ==
    /\ Statement = "initial_index"
    /\ scan_at = "loop"
    /\ scan_todo = {}
    /\ scan_at' = "list"
    /\ main_at' = main_at + 1
    /\ UNCHANGED <<scan_todo, main_doc, observing, queue, handler>>
    /\ UNCHANGED <<idx_vars, srch_vars, chk_vars>>

\* main: observer.schedule(...) and observer.start(): the observer's threads
\* run from here on.
MainStartObserver ==
    /\ Statement = "start_observer"
    /\ observing' = TRUE
    /\ main_at' = main_at + 1
    /\ UNCHANGED <<scan_at, scan_todo, main_doc, queue, handler>>
    /\ UNCHANGED <<idx_vars, srch_vars, chk_vars>>

\* The observer's emitter thread queues an event of the vault.
Emit(e) ==
    /\ observing
    /\ Len(queue) < MaxQueue
    /\ queue' = Append(queue, e)
    /\ UNCHANGED <<main_at, scan_at, scan_todo, main_doc, observing, handler>>
    /\ UNCHANGED <<idx_vars, srch_vars, chk_vars>>

\* The observer thread takes the next event and calls on_created,
\* on_modified or on_deleted, which calls index_file or remove_file: one
\* event at a time, the next when the handler has returned.
Dispatch ==
    /\ observing
    /\ handler = NoEvent
    /\ queue # <<>>
    /\ handler' = Head(queue)
    /\ queue' = Tail(queue)
    /\ UNCHANGED <<main_at, scan_at, scan_todo, main_doc, observing>>
    /\ UNCHANGED <<idx_vars, srch_vars, chk_vars>>

\* The handler, and the index_file or remove_file it called, returns.
HandlerReturns ==
    /\ handler # NoEvent
    /\ handler' = NoEvent
    /\ UNCHANGED <<main_at, scan_at, scan_todo, main_doc, observing, queue>>
    /\ UNCHANGED <<idx_vars, srch_vars, chk_vars>>

NextThreads ==
    \/ MainListFiles
    \/ MainIndexFile
    \/ MainIndexFileReturns
    \/ MainInitialIndexReturns
    \/ MainStartObserver
    \/ \E e \in Events : Emit(e)
    \/ Dispatch
    \/ HandlerReturns

\* The main thread and the observer's threads of one indexer process.
SpecThreads == InitThreads /\ [][NextThreads]_vars

\* ------------------------------------- the indexer fed by the vault's events
\* An editor creates or rewrites a document between two operations of the
\* indexer. Once the observer is started, its emitter queues the event.
EditorWrites(d, c) ==
    /\ Idle
    /\ fs[d] # File(c)
    /\ phase = "watch" => Len(queue) < MaxQueue
    /\ fs' = [fs EXCEPT ![d] = File(c)]
    /\ queue' = IF phase = "watch"
                THEN Append(queue, [kind |-> IF fs[d].exists THEN "modified"
                                             ELSE "created",
                                    doc |-> d])
                ELSE queue
    /\ UNCHANGED <<collection, metadata_file, file_hashes, pc, phase, op, cur,
                   content, current_hash, results, md_files, todo, outcome,
                   failed, ops, pre, touched, scan_dirty, faults, crashes,
                   crashed_at, interrupted>>
    /\ UNCHANGED <<main_at, scan_at, scan_todo, main_doc, observing, handler>>
    /\ UNCHANGED <<srch_vars, chk_vars>>

\* An editor deletes a document between two operations of the indexer.
EditorDeletes(d) ==
    /\ Idle
    /\ fs[d].exists
    /\ phase = "watch" => Len(queue) < MaxQueue
    /\ fs' = [fs EXCEPT ![d] = AbsentFile]
    /\ queue' = IF phase = "watch"
                THEN Append(queue, [kind |-> "deleted", doc |-> d])
                ELSE queue
    /\ UNCHANGED <<collection, metadata_file, file_hashes, pc, phase, op, cur,
                   content, current_hash, results, md_files, todo, outcome,
                   failed, ops, pre, touched, scan_dirty, faults, crashes,
                   crashed_at, interrupted>>
    /\ UNCHANGED <<main_at, scan_at, scan_todo, main_doc, observing, handler>>
    /\ UNCHANGED <<srch_vars, chk_vars>>

\* The observer thread takes the next event of the queue and calls its
\* handler: on_created and on_modified call index_file, on_deleted calls
\* remove_file.
Deliver ==
    /\ pc = "watch"
    /\ queue # <<>>
    /\ queue' = Tail(queue)
    /\ IF Head(queue).kind = "deleted"
       THEN /\ Begin(Head(queue).doc, "remove")
            /\ pc' = "get"
       ELSE /\ Begin(Head(queue).doc, "index")
            /\ pc' = "read"
    /\ UNCHANGED <<fs, collection, metadata_file, file_hashes, phase, md_files,
                   todo, scan_dirty, faults, crashes, crashed_at, interrupted>>
    /\ UNCHANGED <<main_at, scan_at, scan_todo, main_doc, observing, handler>>
    /\ UNCHANGED <<srch_vars, chk_vars>>

NextEvents ==
    \/ \E d \in Docs, c \in Contents : EditorWrites(d, c)
    \/ \E d \in Docs : EditorDeletes(d)
    \/ InitialIndex
    \/ ScanNext
    \/ ScanEnd
    \/ StartWatch
    \/ Deliver
    \/ ReadText
    \/ HashFile
    \/ GetChunks
    \/ DeleteChunks
    \/ AddChunks
    \/ SaveOpen
    \/ SaveDump
    \/ Return

\* The indexer process, its collaborators reliable, running the handlers of
\* exactly the events the observer queued: one for each change made to the
\* vault since observer.start().
SpecEvents == InitReliable /\ [][NextEvents]_vars

\* ================================================================ claims
\* An index_file call has ended having met no failure.
SyncSucceeded ==
    /\ pc = "done"
    /\ op = "index"
    /\ outcome = "indexed"
    /\ failed = {}

\* C1: when an index_file call on a document that had a fingerprint entry
\* finds another fingerprint and completes with no step failing, the Vector
\* Index holds for that document exactly the records built from chunking the
\* text the call read: no record of the prior version is left, whatever its
\* index.
C1_SyncReplacesChunks ==
    (SyncSucceeded /\ pre.file_hashes[cur].present)
        => ChunksOf(cur) = ChunkRecords(cur, content)

\* C1 witness: such a call has ended, and the prior version had a chunk whose
\* index is at or above the number of chunks of the new one.
C1_Witness ==
    /\ SyncSucceeded
    /\ pre.file_hashes[cur].present
    /\ \E r \in pre.chunks :
          r.chunk_index >= Cardinality(ChunkRecords(cur, content))

\* C2: an index_file call on a document whose stored fingerprint is that of
\* the file's text, the file not being written during the call, issues no
\* Vector Index mutation and leaves the in-memory mapping, the persisted file
\* and the document's chunks as they were.
C2_SyncIdempotent ==
    ( /\ pc = "done"
      /\ op = "index"
      /\ ~touched
      /\ fs[cur].exists
      /\ pre.file_hashes[cur] = calculate_file_hash(fs[cur].content) )
        => /\ ops = <<>>
           /\ file_hashes = pre.file_hashes
           /\ metadata_file = pre.metadata_file
           /\ ChunksOf(cur) = pre.chunks

\* C2 witness: the second call of a pair has ended as "unchanged" on a
\* document whose chunks are those of its text.
C2_Witness ==
    /\ pc = "done"
    /\ op = "index"
    /\ outcome = "unchanged"
    /\ ~touched
    /\ fs[cur].exists
    /\ pre.file_hashes[cur] = calculate_file_hash(fs[cur].content)
    /\ pre.chunks = ChunkRecords(cur, fs[cur].content)

\* C3: when a step of index_file fails (the read, the removal of the old
\* chunks, the add, the save), the document's fingerprint entry keeps the
\* value it had before the call.
C3_FailedSyncKeepsEntry ==
    (pc = "done" /\ op = "index" /\ failed # {})
        => file_hashes[cur] = pre.file_hashes[cur]

\* C4: when the store held the fingerprint of a version and the Vector Index
\* exactly that version's chunks, an index_file call that finds another
\* fingerprint and completes with no step failing issues exactly two
\* mutations: one delete of exactly the old chunk ids, then one add of all
\* the chunk records of the text read.
C4_DeleteThenInsert ==
    ( /\ SyncSucceeded
      /\ pre.file_hashes[cur].present
      /\ pre.chunks = ChunkRecords(cur, pre.file_hashes[cur].md5) )
        => ops = << [kind |-> "delete", ids |-> Ids(pre.chunks)],
                    [kind |-> "add", ids |-> Ids(ChunkRecords(cur, content))] >>

\* C4 witness: such a call has ended, the two versions differing in their
\* number of chunks.
C4_Witness ==
    /\ SyncSucceeded
    /\ pre.file_hashes[cur].present
    /\ pre.chunks = ChunkRecords(cur, pre.file_hashes[cur].md5)
    /\ Cardinality(pre.chunks) # Cardinality(ChunkRecords(cur, content))
    /\ Len(ops) = 2

\* C5: when remove_file completes, with no step failing, for a document that
\* had a fingerprint entry, the Vector Index holds no chunk of the document
\* and neither the in-memory mapping nor the persisted file has an entry for
\* it.
C5_RemoveLeavesNothing ==
    (pc = "done" /\ op = "remove" /\ failed = {} /\ pre.file_hashes[cur].present)
        => /\ ChunksOf(cur) = {}
           /\ ~file_hashes[cur].present
           /\ metadata_file.parses
           /\ ~metadata_file.map[cur].present

\* C5 witness: remove_file has ended for a document that had a fingerprint
\* entry and all the chunks of a four-chunk version.
C5_Witness ==
    /\ pc = "done"
    /\ op = "remove"
    /\ failed = {}
    /\ outcome = "removed"
    /\ pre.file_hashes[cur].present
    /\ Cardinality(pre.chunks) = 4

\* C6: when the Vector Index fails while remove_file removes the document's
\* chunks, the fingerprint entry is not deleted and the persisted file is not
\* rewritten.
C6_RemoveAbortsOnIndexFailure ==
    (pc = "done" /\ op = "remove" /\ failed \cap {"get", "delete"} # {})
        => /\ file_hashes[cur] = pre.file_hashes[cur]
           /\ metadata_file = pre.metadata_file

\* C7: after a crash in the middle of an index_file (after its removal step)
\* and a restart, the full scan, run with no failure and no file written
\* meanwhile, leaves the Vector Index holding for each present document
\* exactly the chunks of its current text.
C7_RestartSelfCorrects ==
    (pc = "scanned" /\ interrupted /\ ~scan_dirty)
        => \A d \in Docs :
              fs[d].exists => ChunksOf(d) = ChunkRecords(d, fs[d].content)

\* C8: when the process crashes during save_metadata, the persisted file
\* still parses and still holds the previously persisted entry of every
\* document other than the one being updated.
C8_PersistCrashAtomic ==
    (pc = "down" /\ crashed_at.pc \in {"save_open", "save_dump"})
        => /\ metadata_file.parses
           /\ \A d \in Docs \ {crashed_at.cur} :
                 metadata_file.map[d] = crashed_at.persisted.map[d]

\* C9: while initial_index runs, no step of the process changes the chunks or
\* the fingerprint entry of a document that is not in the list of files the
\* scan took.
C9_ScanKeepsAbsent ==
    [][ (phase = "scan" /\ pc \in {"loop", "read", "hash", "get", "delete",
                                   "add", "save_open", "save_dump", "done"}
         /\ pc' # "down")
          => \A d \in Docs \ md_files :
                /\ {r \in collection' : r.file_path = d} = ChunksOf(d)
                /\ file_hashes'[d] = file_hashes[d] ]_vars

\* C9 witness: during a scan an index_file has just indexed a document while
\* another document, deleted with no remove event, is absent from the list
\* and still has its chunks and its fingerprint entry.
C9_Witness ==
    /\ phase = "scan"
    /\ SyncSucceeded
    /\ \E d \in Docs \ md_files :
          /\ ~fs[d].exists
          /\ ChunksOf(d) # {}
          /\ file_hashes[d].present
\* C10: a search_full call returns at most limit results, no two of them
\* with the same file_path.
C10_AtMostLimitUnique ==
    spc = "returned"
        => /\ Len(articles) <= limit
           /\ \A i, j \in 1..Len(articles) :
                 articles[i].file_path = articles[j].file_path => i = j

\* C10 witness: a call has returned as many results as its limit allows while
\* the index held chunks of more documents than that.
C10_Witness ==
    /\ spc = "returned"
    /\ limit > 0
    /\ Len(articles) = limit
    /\ Cardinality({r.file_path : r \in collection}) > limit

\* The least distance among the hits of the similarity query whose file_path
\* is f.
MinDistance(f) ==
    LET ds == {chunk_results[i].distance :
                  i \in {j \in 1..Len(chunk_results) : chunk_results[j].file_path = f}}
    IN  CHOOSE x \in ds : \A y \in ds : x <= y

\* C11: the results a search_full call returns are in ascending order of the
\* least distance among the query's hits on each result's document (so in
\* descending order of relevance_score), with one result per document, and
\* each result's relevance_score is 1 minus that least distance.
C11_BestDistanceRanking ==
    spc = "returned"
        => /\ \A i \in 1..Len(articles) :
                 /\ \E k \in 1..Len(chunk_results) :
                       chunk_results[k].file_path = articles[i].file_path
                 /\ articles[i].relevance_score = 1 - MinDistance(articles[i].file_path)
           /\ \A i, j \in 1..Len(articles) :
                 i < j => /\ articles[i].file_path # articles[j].file_path
                          /\ MinDistance(articles[i].file_path)
                                <= MinDistance(articles[j].file_path)
                          /\ articles[i].relevance_score >= articles[j].relevance_score

\* C11 witness: a call has returned two results of different scores, the
\* query having hit one of the two documents at two different distances.
C11_Witness ==
    /\ spc = "returned"
    /\ Len(articles) = 2
    /\ articles[1].relevance_score > articles[2].relevance_score
    /\ \E k, m \in 1..Len(chunk_results) :
          /\ chunk_results[k].file_path = chunk_results[m].file_path
          /\ chunk_results[k].distance # chunk_results[m].distance

\* The texts of the given chunk records joined in ascending order of
\* chunk_index.
RECURSIVE TextInIndexOrder(_)
TextInIndexOrder(records) ==
    IF records = {} THEN <<>>
    ELSE LET lowest == CHOOSE r \in records :
                           \A q \in records : r.chunk_index <= q.chunk_index
         IN  Cat(lowest.document, TextInIndexOrder(records \ {lowest}))

\* C12: whenever search_full appends a result for a document, the result's
\* content is the texts of all the chunks the Vector Index then holds for the
\* document, the chunk of index 0 left out, joined in ascending order of
\* chunk_index with their overlaps kept, and its title and full_path are
\* those of the chunk of index 0.
C12_ContentFromStoredChunks ==
    [][ (spc = "fetch" /\ Len(articles') = Len(articles) + 1)
          => LET article == articles'[Len(articles')]
                 stored == ChunksOf(article.file_path)
             IN  /\ article.content =
                        TextInIndexOrder({r \in stored : r.chunk_index # 0})
                 /\ \E t \in stored :
                       /\ t.chunk_index = 0
                       /\ article.title = t.title
                       /\ article.full_path = t.full_path ]_vars

\* C12 witness: a call has returned a result for a document of three content
\* windows with different texts, the content longer than the document's text
\* by what the windows overlap.
C12_Witness ==
    /\ spc = "returned"
    /\ \E i \in 1..Len(articles) :
          LET d == articles[i].file_path
          IN  /\ fs[d] = File(ContentOf(0))
              /\ ChunksOf(d) = ChunkRecords(d, ContentOf(0))
              /\ ByteLen(articles[i].content) > ByteLen(ContentOf(0))

\* A Vector Index call that failed or returned no match.
FailedOrEmpty == {"query_failed", "query_empty", "fetch_failed", "fetch_empty"}

\* Those after which a search call ends with [] whatever it had gathered.
EndsEmpty == {"query_failed", "query_empty", "fetch_failed"}

\* C13 as stated: no search call raises to its caller, and a call one of
\* whose Vector Index calls failed or returned no match, at the similarity
\* query or at a per-document fetch, returns the empty sequence.
C13_AnyEmptyFetchReturnsEmpty ==
    /\ spc # "raised"
    /\ (spc = "returned" /\ seen \cap FailedOrEmpty # {})
          => (articles = <<>> /\ snippets = <<>>)

\* C13 amended: no search call raises to its caller; a call whose similarity
\* query failed or returned no match, or one of whose per-document fetches
\* failed, returns the empty sequence. (A per-document fetch that returns no
\* chunk leaves that one document out of the result.)
C13_FailureReturnsEmpty ==
    /\ spc # "raised"
    /\ (spc = "returned" /\ seen \cap EndsEmpty # {})
          => (articles = <<>> /\ snippets = <<>>)

\* C13 witness: a search_full call has returned [] after a per-document fetch
\* failed, a result having been built for another document before.
C13_Witness ==
    /\ spc = "returned"
    /\ {"fetched", "fetch_failed"} \subseteq seen
    /\ articles = <<>>

\* The title chunk of the call.
TitleChunk == [text |-> chunk_title, start_pos |-> 0, end_pos |-> 0]

\* The content windows the call returned.
ContentWindows == Tail(chunks)

\* C14: chunk_content on a content of at most CHUNK_SIZE bytes (and not
\* empty: the empty content has the title chunk alone) returns exactly two
\* elements, the title chunk and one window holding the whole content, from
\* byte 0 to its byte length.
C14_ShortContentTwoChunks ==
    (cpc = "returned" /\ 0 < ByteLen(chunk_input)
                      /\ ByteLen(chunk_input) <= CHUNK_SIZE)
        => chunks = <<TitleChunk,
                      [text |-> chunk_input, start_pos |-> 0,
                       end_pos |-> ByteLen(chunk_input)]>>

\* C15: any two consecutive content windows chunk_content returns overlap by
\* exactly OVERLAP_SIZE bytes (the earlier one's end offset minus the later
\* one's start offset), every window is at most CHUNK_SIZE bytes long, and
\* every window but the last is exactly CHUNK_SIZE bytes long.
C15_ExactOverlap ==
    cpc = "returned"
        => LET w == ContentWindows
           IN  /\ \A i \in 1..(Len(w) - 1) :
                     w[i].end_pos - w[i + 1].start_pos = OVERLAP_SIZE
               /\ \A i \in 1..Len(w) : w[i].end_pos - w[i].start_pos <= CHUNK_SIZE
               /\ \A i \in 1..(Len(w) - 1) :
                     w[i].end_pos - w[i].start_pos = CHUNK_SIZE

\* C16: the first element chunk_content returns is (title, 0, 0); the start
\* offsets of the windows after it are strictly increasing; every window is
\* non-empty, starts and ends between two characters of the content (so its
\* bytes decode) and carries the text of exactly those bytes.
C16_WindowsWellFormed ==
    cpc = "returned"
        => LET w == ContentWindows
           IN  /\ chunks[1] = TitleChunk
               /\ \A i, j \in 1..Len(w) : i < j => w[i].start_pos < w[j].start_pos
               /\ \A i \in 1..Len(w) :
                     /\ w[i].end_pos > w[i].start_pos
                     /\ w[i].end_pos <= ByteLen(chunk_input)
                     /\ IsBoundary(chunk_input, w[i].start_pos)
                     /\ IsBoundary(chunk_input, w[i].end_pos)
                     /\ ByteLen(w[i].text) = w[i].end_pos - w[i].start_pos
                     /\ w[i].text = Slice(chunk_input, w[i].start_pos, w[i].end_pos)

\* C16 witness: the call has returned three windows or more on a content of
\* multi-byte characters, a window before the last having been trimmed.
C16_Witness ==
    /\ cpc = "returned"
    /\ Len(ContentWindows) >= 3
    /\ \E i \in 1..Len(chunk_input) : chunk_input[i].w > 1
    /\ \E i \in 1..(Len(ContentWindows) - 1) :
          /\ ContentWindows[i].end_pos - ContentWindows[i].start_pos < CHUNK_SIZE
          /\ ContentWindows[i].end_pos < ByteLen(chunk_input)

\* C17: chunk_content returns a window starting at each of the offsets 0,
\* STEP_SIZE, 2 * STEP_SIZE, ... below the content's byte length, also at
\* those inside a multi-byte character; a window ends at most one character
\* short of its CHUNK_SIZE bytes or of the content's end; and every byte of
\* the content lies in some window.
C17_WindowAtEveryStep ==
    cpc = "returned"
        => LET L == ByteLen(chunk_input)
               w == ContentWindows
           IN  /\ \A k \in 0..(L \div STEP_SIZE) :
                     k * STEP_SIZE < L
                         => \E i \in 1..Len(w) : w[i].start_pos = k * STEP_SIZE
               /\ \A i \in 1..Len(w) :
                     w[i].end_pos > Min(w[i].start_pos + CHUNK_SIZE, L) - 4
               /\ \A b \in 0..(L - 1) :
                     \E i \in 1..Len(w) : w[i].start_pos <= b /\ b < w[i].end_pos

\* The complete chunk sets of document d: those of each text it may hold.
CompleteChunkSets(d) == {ChunkRecords(d, c) : c \in Contents}

\* C18: at every point of an index_file call on a document whose chunks were,
\* when the call began, the complete set of one version or none, the Vector
\* Index holds for the document what a query then reads: the chunks it held
\* when the call began, the complete set of the text the call read, or
\* nothing; never chunks of two versions nor part of a version's.
C18_NoPartialReplacement ==
    ( /\ op = "index"
      /\ InHandler
      /\ pre.chunks \in {{}} \cup CompleteChunkSets(cur) )
        => ChunksOf(cur) \in {pre.chunks, {}, ChunkRecords(cur, content)}

\* The number of index_file and remove_file calls running on document d.
InFlight(d) ==
    (IF main_doc = d THEN 1 ELSE 0) + (IF handler.doc = d THEN 1 ELSE 0)

\* C19: at no time are two operations (the scan's index_file, a handler's
\* index_file or remove_file) running on the same document.
C19_OneOperationPerDocument ==
    \A d \in Docs : InFlight(d) <= 1

\* C19 witness: a handler is running on a document the scan has indexed,
\* while another event for the same document waits in the queue.
C19_Witness ==
    /\ handler # NoEvent
    /\ main_at = 3
    /\ \E i \in 1..Len(queue) : queue[i].doc = handler.doc

\* C20: whenever no index_file or remove_file call is running, a document
\* with a fingerprint entry has in the Vector Index exactly the chunk records
\* of the text that has that fingerprint.
C20_StoreMatchesIndex ==
    Idle => \A d \in Docs :
                file_hashes[d].present
                    => ChunksOf(d) = ChunkRecords(d, file_hashes[d].md5)

\* C21: when an index_file call completes with no step failing, the
\* fingerprint it recorded for the document is the fingerprint of the text it
\* read, chunked and added, also when the file was written during the call.
C21_FingerprintOfIndexedContent ==
    SyncSucceeded => file_hashes[cur] = calculate_file_hash(content)

\* The chunk records document d should have: those of its text, or none when
\* the file is gone.
ChunksOfFile(d) ==
    IF fs[d].exists THEN ChunkRecords(d, fs[d].content) ELSE {}

\* C22: once the observer runs, the process is idle and every queued event
\* has been handled (so that nothing more runs until the vault changes
\* again), no call having failed, the Vector Index holds for each document
\* exactly the chunks of its present content, also for the documents changed
\* during the initial scan or before the observer was started.
C22_QuiescentInSync ==
    (pc = "watch" /\ queue = <<>>)
        => \A d \in Docs : ChunksOf(d) = ChunksOfFile(d)
====
